---- MODULE Spec2Model ----
(***************************************************************************)
(* Model of the automatic fine-tuning pipeline of                          *)
(* Blackhand01/mlops_finetuning_framework:                                 *)
(*   src/pipeline_automatic.py          run_automatic_pipeline             *)
(*   src/fine_tuning/ft_job_monitoring.py   monitor_and_report             *)
(*   src/file_management/openai_file_manager.py   upload_file              *)
(*   src/cli/fine_tuning_menu.py        FineTuningMenu._monitor_job        *)
(* The remote training service is the environment: every remote call may   *)
(* fail, and the remote job advances on its own.                           *)
(***************************************************************************)
EXTENDS Integers, Sequences, FiniteSets, TLC

\* ------------------------------------------------------------------------
\* Bounds
\* ------------------------------------------------------------------------
MaxDirFiles == 2    \* files inside a directory handed to upload_file
MaxEvents == 2      \* length of the event list the service returns
MaxVersion == 2     \* greatest N of a v<N> sub-folder
MaxLoads == 2       \* times ConfigLoader.load is run on one directory tree
MaxNameLen == 3     \* characters of a model identifier
MaxSubs == 2        \* times the sanitizing substitution is applied in a row
MaxItems == 6       \* output items the service returns in one page
MaxEnsures == 3     \* calls of ensure_single_assistant in a row
MaxJobs == 2        \* jobs the service lists for the cancel menu

\* ------------------------------------------------------------------------
\* Values
\* ------------------------------------------------------------------------
None == "None"
NoStep == 0

\* config.py lines 44-49 (the keys the pipeline reads)
DEFAULT_HYPERPARAMS == [n_epochs |-> 3, seed |-> 2063707736]

\* _PATTERNS keeps its insertion order: train, valid, eval
Splits == <<"train", "valid", "eval">>

SplitSet == {Splits[k] : k \in 1..Len(Splits)}

terminal_states_running == {"succeeded", "failed", "cancelled", "running"}

terminal_states_without_cancelled == {"succeeded", "failed"}

\* pipeline_automatic.py line 129
terminal_states == {"succeeded", "failed", "cancelled"}

monitor_terminal_with_running == {"succeeded", "failed", "cancelled", "running"}

monitor_terminal_failures_only == {"failed", "cancelled"}

\* ft_job_monitoring.py line 35
monitor_terminal == {"succeeded", "failed", "cancelled"}

\* job statuses of the remote service that are not terminal
NonTerminal == {"validating_files", "queued", "running"}

Status == NonTerminal \cup {"succeeded", "failed", "cancelled"}

\* the remote job only moves forward
Rank(s) ==
    CASE s = "validating_files" -> 0
      [] s = "queued" -> 1
      [] s = "running" -> 2
      [] OTHER -> 3

Models == {"gpt-4o-2024-08-06", "ft:gpt-4o:acme::A1"}

\* the artifacts monitor_and_report writes, in the order it writes them
Artifacts == <<"job", "events", "checkpoints", "metrics", "training_curve">>

ArtifactSet == {Artifacts[k] : k \in 1..Len(Artifacts)}

\* ------------------------------------------------------------------------
\* Dataset discovery (pure helpers)
\* ------------------------------------------------------------------------
\* dataset.base_dir as its path components
BaseDirs ==
    { <<"data", "lang_pairs", "en-fr", "3_fineTuning", "supervised">>,
      <<"data", "lang_pairs", "it-en", "3_fineTuning", "dpo">>,
      <<"data", "en-fr", "3_fineTuning", "supervised">>,
      <<"data", "lang_pairs">> }

\* list.index: position of the first occurrence, 0 when absent (ValueError)
IndexOf(parts, x) ==
    IF \E k \in 1..Len(parts) : parts[k] = x
    THEN CHOOSE k \in 1..Len(parts) :
            parts[k] = x /\ \A j \in 1..(k - 1) : parts[j] # x
    ELSE 0

parse_base_dir(path) ==
    LET idx == IndexOf(path, "lang_pairs") IN
    IF idx = 0 \/ idx + 1 > Len(path)
    THEN [ok |-> FALSE, error |-> "RuntimeError"]
    ELSE [ok |-> TRUE, lang_pair |-> path[idx + 1], method |-> path[Len(path)]]

\* entries of the method directory: num is N when the name is v<N>, 0 otherwise
RootEntries ==
    { [name |-> <<"v", n>>, num |-> n, isdir |-> TRUE] : n \in 1..MaxVersion }
    \cup { [name |-> <<"v", MaxVersion + 1>>, num |-> MaxVersion + 1, isdir |-> FALSE],
           [name |-> <<"latest">>, num |-> 0, isdir |-> TRUE] }

discover_latest_version_dir(entries) ==
    LET versions == {d \in entries : d.isdir /\ d.num > 0} IN
    IF versions = {}
    THEN [ok |-> FALSE, error |-> "RuntimeError"]
    ELSE [ok |-> TRUE,
          latest |-> CHOOSE d \in versions : \A e \in versions : e.num <= d.num]

\* entries of the version directory: kws are the split keywords the name
\* contains (case-insensitively), jsonl whether it ends in .jsonl
VersionEntries ==
    { [name |-> "train_en_fr.jsonl", kws |-> {"train"}, jsonl |-> TRUE, isdir |-> FALSE],
      [name |-> "valid_en_fr.jsonl", kws |-> {"valid"}, jsonl |-> TRUE, isdir |-> FALSE],
      [name |-> "eval_en_fr.jsonl", kws |-> {"eval"}, jsonl |-> TRUE, isdir |-> FALSE],
      [name |-> "train_parts.jsonl", kws |-> {"train"}, jsonl |-> TRUE, isdir |-> TRUE],
      [name |-> "eval_notes.txt", kws |-> {"eval"}, jsonl |-> FALSE, isdir |-> FALSE] }

Matches(entries, typ) == {f \in entries : f.jsonl /\ typ \in f.kws}

RECURSIVE CollectFrom(_, _, _)
CollectFrom(entries, k, mapping) ==
    IF k > Len(Splits) THEN [ok |-> TRUE, mapping |-> mapping]
    ELSE LET typ == Splits[k]
             matches == Matches(entries, typ) IN
         IF matches = {} THEN [ok |-> FALSE, error |-> "Missing", split |-> typ]
         ELSE IF Cardinality(matches) > 1
              THEN [ok |-> FALSE, error |-> "Multiple", split |-> typ]
              ELSE CollectFrom(entries, k + 1,
                       [t \in (DOMAIN mapping) \cup {typ} |->
                           IF t = typ THEN CHOOSE f \in matches : TRUE
                           ELSE mapping[t]])

collect_dataset_files(entries) == CollectFrom(entries, 1, <<>>)

\* ------------------------------------------------------------------------
\* Names as character sequences: the two version parsers
\* ------------------------------------------------------------------------
\* the decimal digits, in order of value
Digits == <<"0", "1", "2", "3", "4", "5", "6", "7", "8", "9">>

\* str.isdigit, \d+: at least one character, all of them digits
IsDigits(s) == Len(s) > 0 /\ \A k \in 1..Len(s) : IndexOf(Digits, s[k]) > 0

\* int(s) of a digit string
RECURSIVE ToInt(_)
ToInt(s) ==
    IF s = <<>> THEN 0
    ELSE 10 * ToInt(SubSeq(s, 1, Len(s) - 1)) + (IndexOf(Digits, s[Len(s)]) - 1)

\* str.lstrip(c): every leading c is removed
RECURSIVE Lstrip(_, _)
Lstrip(s, c) == IF s # <<>> /\ Head(s) = c THEN Lstrip(Tail(s), c) ELSE s

\* re.match(r"v(\d+)$", name) and int(m.group(1)); 0 when there is no match
VersionNumber(name) ==
    IF Len(name) > 1 /\ Head(name) = "v" /\ IsDigits(Tail(name))
    THEN ToInt(Tail(name))
    ELSE 0

\* entries a method directory may hold: v9/, v10/, 12/, vx/ and a file v11
MethodDirEntries ==
    { [name |-> <<"v", "9">>, isdir |-> TRUE],
      [name |-> <<"v", "1", "0">>, isdir |-> TRUE],
      [name |-> <<"1", "2">>, isdir |-> TRUE],
      [name |-> <<"v", "x">>, isdir |-> TRUE],
      [name |-> <<"v", "1", "1">>, isdir |-> FALSE] }

\* entries a version directory may hold: VersionEntries and a second file
\* whose stem contains the train keyword
DatasetEntries ==
    VersionEntries \cup
    { [name |-> "training_en_fr.jsonl", kws |-> {"train"}, jsonl |-> TRUE,
       isdir |-> FALSE] }

\* Path.iterdir yields the entries in an arbitrary order
RECURSIVE Orders(_)
Orders(S) ==
    IF S = {} THEN {<<>>}
    ELSE UNION {{<<x>> \o rest : rest \in Orders(S \ {x})} : x \in S}

\* lines 83-88 of run_automatic_pipeline: the three path helpers in a row
Locator(base_dir, root, entries) ==
    LET parsed == parse_base_dir(base_dir) IN
    IF ~parsed.ok
    THEN [ok |-> FALSE, stage |-> "parse_base_dir", error |-> parsed.error,
          split |-> None]
    ELSE LET found == discover_latest_version_dir(
                        {[name |-> d.name, num |-> VersionNumber(d.name),
                          isdir |-> d.isdir] : d \in root}) IN
         IF ~found.ok
         THEN [ok |-> FALSE, stage |-> "discover_latest_version_dir",
               error |-> found.error, split |-> None]
         ELSE LET coll == collect_dataset_files(entries) IN
              IF ~coll.ok
              THEN [ok |-> FALSE, stage |-> "collect_dataset_files",
                    error |-> coll.error, split |-> coll.split]
              ELSE [ok |-> TRUE, lang_pair |-> parsed.lang_pair,
                    method |-> parsed.method, version |-> found.latest.name,
                    files |-> coll.mapping]

\* ------------------------------------------------------------------------
\* config.py: zero-config resolution (pure helpers)
\* ------------------------------------------------------------------------
\* the entries _auto_version keeps, in listing order
VersionCandidates(listing) ==
    SelectSeq(listing, LAMBDA p : p.isdir /\ IsDigits(Lstrip(p.name, "v")))

\* sorted(..., key=int(name.lstrip("v")))[-1].name: sorted is stable, so the
\* last element is the last listed one among those with the greatest key
_auto_version(listing) ==
    LET versions == VersionCandidates(listing)
        key(p) == ToInt(Lstrip(p.name, "v")) IN
    IF versions = <<>>
    THEN [ok |-> FALSE, error |-> "FileNotFoundError"]
    ELSE LET last == CHOOSE k \in 1..Len(versions) :
                       /\ \A j \in 1..Len(versions) :
                            key(versions[j]) <= key(versions[k])
                       /\ \A j \in (k + 1)..Len(versions) :
                            key(versions[j]) < key(versions[k])
         IN [ok |-> TRUE, name |-> versions[last].name]

\* the first listed .jsonl regular file whose stem contains a keyword of typ
_find_file(listing, typ) ==
    LET hits == SelectSeq(listing,
                    LAMBDA fp : ~fp.isdir /\ fp.jsonl /\ typ \in fp.kws) IN
    IF hits = <<>>
    THEN [ok |-> FALSE, error |-> "FileNotFoundError", split |-> typ]
    ELSE [ok |-> TRUE, path |-> Head(hits)]

\* Path.parent taken up times, then .name; the root's name is empty
AncestorName(path, up) == IF Len(path) > up THEN path[Len(path) - up] ELSE ""

DEFAULT_BASE_MODEL == "gpt-4o-2024-08-06"

\* DEFAULT_SUFFIX_TEMPLATE.format(lang_pair, version, method)
FormatSuffix(lp, v, m) == <<lp, "translator", v, m>>

\* str.upper on the language pairs of BaseDirs
Upper(s) == CASE s = "en-fr" -> "EN-FR"
              [] s = "it-en" -> "IT-EN"

\* _build_ft_config from the version _auto_version returned on
_build_ft_config(base_dir, version_name, listing) ==
    LET m == AncestorName(base_dir, 0)
        lp == AncestorName(base_dir, 3)
        train == _find_file(listing, "train")
        valid == _find_file(listing, "valid")
        eval == _find_file(listing, "eval") IN
    IF ~train.ok THEN [ok |-> FALSE, error |-> train.error, split |-> train.split]
    ELSE IF ~valid.ok THEN [ok |-> FALSE, error |-> valid.error, split |-> valid.split]
    ELSE IF ~eval.ok THEN [ok |-> FALSE, error |-> eval.error, split |-> eval.split]
    ELSE [ok |-> TRUE, lang_pair |-> lp, method |-> m, version |-> version_name,
          suffix |-> FormatSuffix(lp, Lstrip(version_name, "v"), m),
          hyperparameters |-> DEFAULT_HYPERPARAMS,
          data |-> [train |-> train.path, valid |-> valid.path, eval |-> eval.path]]

_package_auto_config_without_run_path(base_dir, ft) ==
    [ok |-> TRUE,
     dataset |-> [base_dir |-> base_dir],
     fine_tuning |-> [enable |-> TRUE, base_model |-> DEFAULT_BASE_MODEL,
                      method |-> ft.method,
                      suffix_template |-> "DEFAULT_SUFFIX_TEMPLATE",
                      hyperparameters |-> ft.hyperparameters],
     evaluation |-> [enable |-> TRUE,
                     data_source_config_path |-> "data_source_config.json",
                     testing_criteria_path |-> "testing_criteria.json"],
     autobuild |-> [lang_pair |-> ft.lang_pair, version |-> ft.version,
                    suffix |-> ft.suffix, data |-> ft.data]]

\* ConfigLoader._package_auto_config
_package_auto_config(base_dir, ft) ==
    [ok |-> TRUE,
     dataset |-> [base_dir |-> base_dir],
     fine_tuning |-> [enable |-> TRUE, base_model |-> DEFAULT_BASE_MODEL,
                      method |-> ft.method,
                      suffix_template |-> "DEFAULT_SUFFIX_TEMPLATE",
                      hyperparameters |-> ft.hyperparameters],
     evaluation |-> [enable |-> TRUE,
                     data_source_config_path |-> "data_source_config.json",
                     testing_criteria_path |-> "testing_criteria.json",
                     data_source_run_path |-> "data_source_run.json"],
     autobuild |-> [lang_pair |-> ft.lang_pair, version |-> ft.version,
                    suffix |-> ft.suffix, data |-> ft.data]]

\* ------------------------------------------------------------------------
\* config.py: declarative mode (pure helpers)
\* ------------------------------------------------------------------------
\* what yaml.safe_load cannot parse
MalformedYaml == [yaml_error |-> TRUE]

\* split ratios a document may state, in hundredths: train, valid, eval
Ratios == {<<80, 10, 10>>, <<70, 10, 10>>, <<80, 20, 20>>}

\* the dataset section: with or without base_dir (an existing directory or
\* not), with or without split ratios
DatasetSections ==
    {<<>>}
    \cup [base_dir : {<<"data", "lang_pairs", "en-fr", "3_fineTuning", "supervised">>,
                      <<"data", "absent">>}]
    \cup [ratios : Ratios]
    \cup [base_dir : {<<"data", "lang_pairs", "en-fr", "3_fineTuning", "supervised">>,
                      <<"data", "absent">>},
          ratios : Ratios]

\* the keys _validate_schema asks of fine_tuning and evaluation, in its order
FineTuningKeys == <<"enable", "base_model", "suffix_template", "hyperparameters">>

EvaluationKeys == <<"enable", "data_source_config_path", "testing_criteria_path",
                    "data_source_run_path">>

FullFineTuning ==
    [k \in {FineTuningKeys[i] : i \in 1..Len(FineTuningKeys)} |->
        CASE k = "enable" -> TRUE
          [] k = "base_model" -> DEFAULT_BASE_MODEL
          [] k = "suffix_template" -> "DEFAULT_SUFFIX_TEMPLATE"
          [] k = "hyperparameters" -> DEFAULT_HYPERPARAMS]

FullEvaluation ==
    [k \in {EvaluationKeys[i] : i \in 1..Len(EvaluationKeys)} |->
        CASE k = "enable" -> TRUE
          [] k = "data_source_config_path" -> "data_source_config.json"
          [] k = "testing_criteria_path" -> "testing_criteria.json"
          [] k = "data_source_run_path" -> "data_source_run.json"]

\* every section obtained from a full one by leaving keys out
Restrictions(full) == {[k \in ks |-> full[k]] : ks \in SUBSET DOMAIN full}

TopLevelKeys == {"dataset", "fine_tuning", "evaluation"}

\* the documents config.yaml may hold
Documents ==
    {MalformedYaml} \cup
    UNION { { [k \in ks |-> CASE k = "dataset" -> d
                              [] k = "fine_tuning" -> f
                              [] k = "evaluation" -> e] :
                d \in (IF "dataset" \in ks THEN DatasetSections ELSE {<<>>}),
                f \in (IF "fine_tuning" \in ks THEN Restrictions(FullFineTuning)
                                              ELSE {<<>>}),
                e \in (IF "evaluation" \in ks THEN Restrictions(FullEvaluation)
                                             ELSE {<<>>}) } :
            ks \in SUBSET TopLevelKeys }

\* Path(ds["base_dir"]).is_dir()
IsDir(path) == path \in BaseDirs

\* the first key of keys that section lacks, None when it has them all
RECURSIVE FirstMissing(_, _, _)
FirstMissing(section, keys, k) ==
    IF k > Len(keys) THEN None
    ELSE IF keys[k] \notin DOMAIN section THEN keys[k]
    ELSE FirstMissing(section, keys, k + 1)

\* raise ValueError(...): names are the key paths the message spells out
ValueError(names) == [ok |-> FALSE, error |-> "ValueError", names |-> names]

_validate_schema_skips_evaluation(cfg) ==
    LET missing == TopLevelKeys \ DOMAIN cfg IN
    IF missing # {} THEN ValueError({<<k>> : k \in missing})
    ELSE IF "base_dir" \notin DOMAIN cfg["dataset"] \/ ~IsDir(cfg["dataset"]["base_dir"])
    THEN ValueError({<<"dataset", "base_dir">>})
    ELSE LET ft == FirstMissing(cfg["fine_tuning"], FineTuningKeys, 1) IN
         IF ft # None THEN ValueError({<<"fine_tuning", ft>>})
         ELSE [ok |-> TRUE]

\* ConfigLoader._validate_schema: the error it raises, or ok
_validate_schema(cfg) ==
    LET missing == TopLevelKeys \ DOMAIN cfg IN
    IF missing # {} THEN ValueError({<<k>> : k \in missing})
    ELSE IF "base_dir" \notin DOMAIN cfg["dataset"] \/ ~IsDir(cfg["dataset"]["base_dir"])
    THEN ValueError({<<"dataset", "base_dir">>})
    ELSE LET ft == FirstMissing(cfg["fine_tuning"], FineTuningKeys, 1)
             ev == FirstMissing(cfg["evaluation"], EvaluationKeys, 1) IN
         IF ft # None THEN ValueError({<<"fine_tuning", ft>>})
         ELSE IF ev # None THEN ValueError({<<"evaluation", ev>>})
         ELSE [ok |-> TRUE]

\* ConfigLoader.load on a .yaml file: _read_yaml, _validate_schema, return cfg
LoadDeclarative(doc) ==
    IF doc = MalformedYaml
    THEN [ok |-> FALSE, error |-> "YAMLError", names |-> {}]
    ELSE LET checked == _validate_schema(doc) IN
         IF ~checked.ok THEN checked
         ELSE [ok |-> TRUE, dataset |-> doc["dataset"],
               fine_tuning |-> doc["fine_tuning"],
               evaluation |-> doc["evaluation"]]

\* ------------------------------------------------------------------------
\* monitor_and_report: the sanitized model name (pure helpers)
\* ------------------------------------------------------------------------
\* the characters the class [A-Za-z0-9_-] holds
SafeChars ==
    {"A", "B", "C", "D", "E", "F", "G", "H", "I", "J", "K", "L", "M",
     "N", "O", "P", "Q", "R", "S", "T", "U", "V", "W", "X", "Y", "Z"}
    \cup {"a", "b", "c", "d", "e", "f", "g", "h", "i", "j", "k", "l", "m",
     "n", "o", "p", "q", "r", "s", "t", "u", "v", "w", "x", "y", "z"}
    \cup {Digits[k] : k \in 1..Len(Digits)}
    \cup {"_", "-"}

\* characters model identifiers are drawn from
NameChars == {"f", "T", "4", "_", "-", ":", ".", "/", " "}

ModelNames == UNION {[1..n -> NameChars] : n \in 0..MaxNameLen}

safe_name_removes(model_name) ==
    SelectSeq(model_name, LAMBDA c : c \in SafeChars)

\* re.sub(r"[^A-Za-z0-9_-]", "_", model_name)
safe_name(model_name) ==
    [k \in 1..Len(model_name) |->
        IF model_name[k] \in SafeChars THEN model_name[k] ELSE "_"]

\* the five report files, inside the directory safe_name (lines 160-172)
ReportPaths(name) ==
    {<<name, <<Artifacts[k], name>>>> : k \in 1..Len(Artifacts)}

\* ------------------------------------------------------------------------
\* State
\* ------------------------------------------------------------------------
VARIABLES
    mode,        \* entry point: run_automatic_pipeline or the menu's monitor_and_report
    pc,          \* position in the code
    config,      \* the configuration dictionary handed to the pipeline
    fs,          \* evaluation documents present on disk
    lang_pair, method, version, ds_files,
    uploaded,    \* split -> remote file identifier
    nfiles,      \* files stored by the remote service
    remote,      \* the job as the remote service holds it
    job, status, \* last snapshot fetched by the pipeline and its status
    called,      \* remote verbs issued so far
    failed,      \* remote verbs / local writes that raised so far
    log,         \* lines printed for the operator, in order
    raw,         \* _RawJobArtifacts collected by monitor_and_report
    df_metrics,  \* the metrics table
    written,     \* report artifacts on disk
    err,         \* exception that left the entry point uncaught
    ft_request,  \* arguments of the Fine-Tuning.create call, empty before it
    template,    \* the run template as read from data_source_run_path
    run_request, \* the run configuration handed to Evaluation.createRun
    root_dir,    \* entries of the method directory dataset.base_dir
    version_dir, \* entries of its version directories
    located,     \* what the pipeline's three path helpers returned, once called
    loading,     \* ConfigLoader.load under way: the name _auto_version returned
    loads,       \* results of the ConfigLoader.load calls so far
    document,    \* what the .yaml file handed to ConfigLoader holds
    names,       \* a model identifier, then the results of sanitizing it
    paths,   \* the report paths derived from the sanitized name
    inspected,   \* what the pipeline rendered of the fetched output items
    waited,   \* the latest sleep or status fetch of a wait loop
    assistants,   \* the assistants the remote service holds, oldest first
    ensured,   \* what the calls of ensure_single_assistant did, in order
    jobs,   \* the jobs list_fine_tuning_jobs returned to the cancel menu
    ongoing,   \* the jobs the cancel menu offers, in the order shown
    idx,   \* the job number read from the operator, 0 for none
    cancel_requests    \* job identifiers handed to Fine-Tuning.cancel, in order

vars == <<mode, pc, config, fs, lang_pair, method, version, ds_files, uploaded,
          nfiles, remote, job, status, called, failed, log, raw, df_metrics,
          written, err, ft_request, template, run_request,
          root_dir, version_dir, located, loading, loads, document,
          names, paths, inspected, waited, assistants, ensured, jobs, ongoing, idx, cancel_requests>>

\* the variables of the pipeline run, and those of the path helpers
runvars == <<mode, pc, config, fs, lang_pair, method, version, ds_files,
             uploaded, nfiles, remote, job, status, called, failed, log, raw,
             df_metrics, written, err, ft_request, template, run_request>>

locvars == <<root_dir, version_dir, located, loading, loads, document,
            names, paths>>

NoJob == [id |-> None, status |-> None, model |-> None]

NoRaw == [job |-> NoJob, events |-> <<>>, checkpoints |-> <<>>]

JobId == "ftjob-1"

EvalFiles == {"data_source_config", "testing_criteria", "data_source_run"}

\* fine_tuning.hyperparameters of the configuration, with and without a seed
Hypers == {DEFAULT_HYPERPARAMS, [n_epochs |-> 1]}

\* what Fine-Tuning.retrieve returns for the job
Snapshot == [id |-> JobId, status |-> remote.status, model |-> remote.model]

Init ==
    /\ mode \in {"pipeline", "monitor"}
    /\ IF mode = "pipeline"
       THEN /\ pc = "discover"
            /\ config \in [base_dir : BaseDirs, enable : BOOLEAN,
                            hyperparameters : Hypers]
            /\ fs \in SUBSET EvalFiles
            /\ remote = NoJob
       ELSE /\ pc = "mr_fetch"
            /\ config = [base_dir |-> <<>>, enable |-> FALSE,
                         hyperparameters |-> DEFAULT_HYPERPARAMS]
            /\ fs = {}
            /\ remote \in {NoJob} \cup [id : {JobId}, status : Status, model : Models]
    /\ lang_pair = None /\ method = None /\ version = None
    /\ ds_files = <<>>
    /\ uploaded = <<>>
    /\ nfiles = 0
    /\ job = NoJob /\ status = None
    /\ called = {} /\ failed = {} /\ log = <<>>
    /\ raw = NoRaw /\ df_metrics = <<>> /\ written = {}
    /\ err = None
    /\ ft_request = <<>> /\ template = <<>> /\ run_request = <<>>
    /\ root_dir = {} /\ version_dir = {}
    /\ located = <<>> /\ loading = <<>> /\ loads = <<>>
    /\ document = <<>>
    /\ names = <<>> /\ paths = {}
    /\ inspected = <<>>
    /\ waited = <<>>
    /\ assistants = <<>>
    /\ ensured = <<>>
    /\ jobs = <<>>
    /\ ongoing = <<>>
    /\ idx = 0
    /\ cancel_requests = <<>>

\* an exception leaves run_automatic_pipeline
Raise(e) == pc' = "error" /\ err' = e

\* ------------------------------------------------------------------------
\* run_automatic_pipeline: discovery, upload, launch
\* ------------------------------------------------------------------------
LocatorFailure_ignored(e) ==
    /\ pc' = "upload"
    /\ err' = err

\* the RuntimeError of a path helper is not caught by the pipeline
LocatorFailure(e) == Raise(e)

Discover ==
    /\ mode = "pipeline" /\ pc = "discover"
    /\ LET parsed == parse_base_dir(config.base_dir) IN
       IF ~parsed.ok
       THEN /\ LocatorFailure(parsed.error)
            /\ UNCHANGED <<lang_pair, method, version, ds_files>>
       ELSE /\ lang_pair' = parsed.lang_pair
            /\ method' = parsed.method
            /\ \E root \in SUBSET RootEntries :
                 LET found == discover_latest_version_dir(root) IN
                 IF ~found.ok
                 THEN /\ LocatorFailure(found.error)
                      /\ UNCHANGED <<version, ds_files>>
                 ELSE /\ version' = found.latest.name
                      /\ \E entries \in SUBSET VersionEntries :
                           LET coll == collect_dataset_files(entries) IN
                           IF ~coll.ok
                           THEN /\ LocatorFailure(coll.error)
                                /\ UNCHANGED ds_files
                           ELSE /\ ds_files' = coll.mapping
                                /\ pc' = "upload"
                                /\ err' = err
    /\ UNCHANGED <<locvars, cancel_requests, idx, ongoing, jobs, ensured, assistants, waited, inspected, mode, ft_request, template, run_request, config, fs, uploaded, nfiles, remote, job, status,
                   called, failed, log, raw, df_metrics, written>>

\* the split the upload loop is at: the first one without an identifier
NextSplit == Splits[Cardinality(DOMAIN uploaded) + 1]

UploadNext_after_two == IF Cardinality(DOMAIN uploaded) + 1 >= 2 THEN "launch" ELSE "upload"

\* the for loop of lines 97-101 goes on to the launch after the last split
UploadNext == IF Cardinality(DOMAIN uploaded) + 1 = Len(Splits) THEN "launch" ELSE "upload"

UploadFailure_logged_only ==
    /\ pc' = "upload"
    /\ err' = err

\* upload_file, single file: log the error and re-raise it (lines 101-103)
UploadFailure == Raise("UploadError")

\* one iteration of the upload loop: upload_file, then uploaded[typ] = fid
Upload ==
    /\ mode = "pipeline" /\ pc = "upload"
    /\ LET typ == NextSplit
           path == ds_files[typ] IN
       /\ called' = called \cup {"files.create"}
       /\ IF ~path.isdir
          THEN \* single file: an exception of files.create is re-raised
               \E ok \in BOOLEAN :
                 IF ok
                 THEN /\ nfiles' = nfiles + 1
                      /\ uploaded' = [t \in (DOMAIN uploaded) \cup {typ} |->
                                        IF t = typ THEN nfiles + 1 ELSE uploaded[t]]
                      /\ pc' = UploadNext
                      /\ UNCHANGED <<failed, err>>
                 ELSE /\ failed' = failed \cup {"files.create"}
                      /\ UploadFailure
                      /\ UNCHANGED <<nfiles, uploaded>>
          ELSE \* directory: every file in it is uploaded, failures are only
               \* logged, and the pipeline takes the first result
               \E n \in 0..MaxDirFiles : \E oks \in SUBSET (1..n) :
                 /\ nfiles' = nfiles + Cardinality(oks)
                 /\ failed' = IF Cardinality(oks) < n
                              THEN failed \cup {"files.create(entry)"} ELSE failed
                 /\ IF oks = {}
                    THEN /\ Raise("IndexError")
                         /\ UNCHANGED uploaded
                    ELSE /\ uploaded' = [t \in (DOMAIN uploaded) \cup {typ} |->
                                           IF t = typ THEN nfiles + 1 ELSE uploaded[t]]
                         /\ pc' = UploadNext
                         /\ err' = err
    /\ UNCHANGED <<locvars, cancel_requests, idx, ongoing, jobs, ensured, assistants, waited, inspected, mode, ft_request, template, run_request, config, fs, lang_pair, method, version, ds_files,
                   remote, job, status, log, raw, df_metrics, written>>

\* dict.get(key): None when the key is absent
Get(d, key) == IF key \in DOMAIN d THEN d[key] ELSE None

\* {"type": method, method: {"hyperparameters": ...}}: a later key wins
MethodEnvelope(m, hyper) ==
    [k \in {"type", m} |-> IF k = m THEN [hyperparameters |-> hyper] ELSE m]

LaunchRequest_eval_as_validation ==
    [model |-> "gpt-4o-2024-08-06",
     training_file |-> uploaded["train"],
     validation_file |-> uploaded["eval"],
     suffix |-> FormatSuffix(Upper(lang_pair), version, method),
     method |-> MethodEnvelope(method, config.hyperparameters),
     metadata |-> [source |-> "auto", lang_pair |-> lang_pair, version |-> version],
     seed |-> Get(config.hyperparameters, "seed")]

\* the keyword arguments of create_fine_tuning_job (lines 104-123)
LaunchRequest ==
    [model |-> "gpt-4o-2024-08-06",
     training_file |-> uploaded["train"],
     validation_file |-> uploaded["valid"],
     suffix |-> FormatSuffix(Upper(lang_pair), version, method),
     method |-> MethodEnvelope(method, config.hyperparameters),
     metadata |-> [source |-> "auto", lang_pair |-> lang_pair, version |-> version],
     seed |-> Get(config.hyperparameters, "seed")]

LaunchFailure_swallowed ==
    /\ pc' = "poll"
    /\ err' = err

\* create_fine_tuning_job logs the error and re-raises it (lines 46-48)
LaunchFailure == Raise("CreateError")

\* create_fine_tuning_job with uploaded["train"] and uploaded["valid"]
Launch ==
    /\ mode = "pipeline" /\ pc = "launch"
    /\ called' = called \cup {"jobs.create"}
    /\ ft_request' = LaunchRequest
    /\ \/ /\ failed' = failed \cup {"jobs.create"}
          /\ LaunchFailure
          /\ UNCHANGED <<remote, job, status>>
       \/ \E s \in {"validating_files", "queued"} : \E m \in Models :
            /\ remote' = [id |-> JobId, status |-> s, model |-> m]
            /\ job' = remote'
            /\ status' = s
            /\ pc' = "poll"
            /\ UNCHANGED <<failed, err>>
    /\ UNCHANGED <<locvars, cancel_requests, idx, ongoing, jobs, ensured, assistants, waited, inspected, mode, template, run_request, config, fs, lang_pair, method,
                   version, ds_files, uploaded, nfiles, log, raw, df_metrics,
                   written>>

\* the remote service moves the job forward on its own
RemoteAdvance ==
    /\ remote # NoJob
    /\ remote.status \in NonTerminal
    /\ \E s \in Status :
         /\ Rank(s) > Rank(remote.status)
         /\ remote' = [remote EXCEPT !.status = s]
    /\ UNCHANGED <<locvars, cancel_requests, idx, ongoing, jobs, ensured, assistants, waited, inspected, mode, ft_request, template, run_request, pc, config, fs, lang_pair, method, version, ds_files,
                   uploaded, nfiles, job, status, called, failed, log, raw,
                   df_metrics, written, err>>

\* ------------------------------------------------------------------------
\* run_automatic_pipeline: wait loop (lines 128-136)
\* ------------------------------------------------------------------------
\* the while test, and the branch on the status that ended the loop
WhileCheck ==
    /\ mode = "pipeline" /\ pc = "poll"
    /\ pc' = IF status \notin terminal_states THEN "sleep"
             ELSE IF status # "succeeded" THEN "diagnose"
             ELSE "mr_fetch"
    /\ UNCHANGED <<locvars, cancel_requests, idx, ongoing, jobs, ensured, assistants, waited, inspected, mode, ft_request, template, run_request, config, fs, lang_pair, method, version, ds_files,
                   uploaded, nfiles, remote, job, status, called, failed, log,
                   raw, df_metrics, written, err>>

\* time.sleep(120) of the pipeline, poll_secs = 60 of monitor_and_report
PollSecs(loop) == IF loop = "pipeline" THEN 120 ELSE 60

\* what a wait loop did last
Slept(loop) ==
    <<[loop |-> loop, event |-> "sleep", status |-> None, secs |-> PollSecs(loop)]>>

Fetched(loop, s) ==
    <<[loop |-> loop, event |-> "fetch", status |-> s, secs |-> 0]>>

\* time.sleep(120)
Sleep ==
    /\ mode = "pipeline" /\ pc = "sleep"
    /\ pc' = "retrieve"
    /\ waited' = Slept("pipeline")
    /\ UNCHANGED <<locvars, cancel_requests, idx, ongoing, jobs, ensured, assistants, inspected, mode, ft_request, template, run_request, config, fs, lang_pair, method, version, ds_files,
                   uploaded, nfiles, remote, job, status, called, failed, log,
                   raw, df_metrics, written, err>>

\* job = ftm.retrieve_fine_tuning_job(jid); status = job.get("status")
Retrieve ==
    /\ mode = "pipeline" /\ pc = "retrieve"
    /\ called' = called \cup {"jobs.retrieve"}
    /\ \/ /\ failed' = failed \cup {"jobs.retrieve"}
          /\ Raise("RetrieveError")
          /\ waited' = Fetched("pipeline", None)
          /\ UNCHANGED <<job, status>>
       \/ /\ job' = Snapshot
          /\ status' = Snapshot.status
          /\ waited' = Fetched("pipeline", Snapshot.status)
          /\ pc' = "poll"
          /\ UNCHANGED <<failed, err>>
    /\ UNCHANGED <<locvars, cancel_requests, idx, ongoing, jobs, ensured, assistants, inspected, mode, ft_request, template, run_request, config, fs, lang_pair, method, version, ds_files,
                   uploaded, nfiles, remote, log, raw, df_metrics, written>>

\* ------------------------------------------------------------------------
\* run_automatic_pipeline: diagnosis of a failed job (lines 138-164)
\* ------------------------------------------------------------------------
\* print(json.dumps(job))
DiagnosePrint ==
    /\ mode = "pipeline" /\ pc = "diagnose"
    /\ log' = Append(log, "job_snapshot")
    /\ pc' = "diag_events"
    /\ UNCHANGED <<locvars, cancel_requests, idx, ongoing, jobs, ensured, assistants, waited, inspected, mode, ft_request, template, run_request, config, fs, lang_pair, method, version, ds_files,
                   uploaded, nfiles, remote, job, status, called, failed,
                   raw, df_metrics, written, err>>

EventsFailure_raises ==
    /\ log' = log
    /\ Raise("EventsError")

\* except Exception around list_fine_tuning_events
EventsFailure ==
    /\ log' = Append(log, "error_retrieving_events")
    /\ pc' = "diag_checkpoints"
    /\ err' = err

DiagnoseEvents ==
    /\ mode = "pipeline" /\ pc = "diag_events"
    /\ called' = called \cup {"jobs.list_events"}
    /\ \/ /\ failed' = failed \cup {"jobs.list_events"}
          /\ EventsFailure
       \/ /\ log' = Append(log, "events")
          /\ pc' = "diag_checkpoints"
          /\ UNCHANGED <<failed, err>>
    /\ UNCHANGED <<locvars, cancel_requests, idx, ongoing, jobs, ensured, assistants, waited, inspected, mode, ft_request, template, run_request, config, fs, lang_pair, method, version, ds_files,
                   uploaded, nfiles, remote, job, status, raw, df_metrics,
                   written>>

DiagnoseReturn_falls_through == "mr_fetch"

DiagnoseReturn_relaunches == "launch"

\* the return that ends the diagnosis (line 164)
DiagnoseReturn == "stopped"

DiagnoseCheckpoints ==
    /\ mode = "pipeline" /\ pc = "diag_checkpoints"
    /\ called' = called \cup {"jobs.list_checkpoints"}
    /\ \/ /\ failed' = failed \cup {"jobs.list_checkpoints"}
          /\ log' = Append(log, "error_retrieving_checkpoints")
       \/ /\ log' = Append(log, "checkpoints")
          /\ failed' = failed
    /\ pc' = DiagnoseReturn
    /\ UNCHANGED <<locvars, cancel_requests, idx, ongoing, jobs, ensured, assistants, waited, inspected, mode, ft_request, template, run_request, config, fs, lang_pair, method, version, ds_files,
                   uploaded, nfiles, remote, job, status, raw, df_metrics,
                   written, err>>

\* ------------------------------------------------------------------------
\* monitor_and_report (ft_job_monitoring.py)
\* ------------------------------------------------------------------------
EventKinds ==
    { [type |-> "message", step |-> NoStep],
      [type |-> "metrics", step |-> NoStep],
      [type |-> "metrics", step |-> 1],
      [type |-> "metrics", step |-> 2] }

\* the event lists Fine-Tuning.listEvents may return
EventLists == UNION {[1..n -> EventKinds] : n \in 0..MaxEvents}

\* the loop of _metrics_df: one record per metrics event that has a step
RECURSIVE MetricRecords(_)
MetricRecords(events) ==
    IF events = <<>> THEN <<>>
    ELSE LET evt == Head(events)
             rest == MetricRecords(Tail(events)) IN
         IF evt.type = "metrics" /\ evt.step # NoStep
         THEN <<[step |-> evt.step]>> \o rest
         ELSE rest

\* insert a record behind the records whose step is not greater
RECURSIVE InsertByStep(_, _)
InsertByStep(r, sorted) ==
    IF sorted = <<>> THEN <<r>>
    ELSE IF Head(sorted).step <= r.step
         THEN <<Head(sorted)>> \o InsertByStep(r, Tail(sorted))
         ELSE <<r>> \o sorted

SortByStep_unsorted(records) == records

\* DataFrame.sort_values("step", ascending=True)
RECURSIVE SortByStep(_)
SortByStep(records) ==
    IF records = <<>> THEN <<>>
    ELSE InsertByStep(records[Len(records)],
                      SortByStep(SubSeq(records, 1, Len(records) - 1)))

\* pd.DataFrame(records).sort_values("step"): a frame built from no records
\* has no "step" column, and sorting by it raises KeyError
_metrics_df(events) ==
    LET records == MetricRecords(events) IN
    IF records = <<>>
    THEN [ok |-> FALSE, error |-> "KeyError"]
    ELSE [ok |-> TRUE, df |-> SortByStep(records)]

\* an exception leaves monitor_and_report: the pipeline does not catch it,
\* FineTuningMenu._monitor_job prints it
MRRaise(e) ==
    IF mode = "pipeline"
    THEN /\ Raise(e)
         /\ log' = log
    ELSE /\ pc' = "menu_done"
         /\ log' = Append(log, "error_during_monitoring")
         /\ err' = err

\* monitor_and_report returns to its caller
MRReturn ==
    IF mode = "pipeline"
    THEN /\ pc' = "eval_check"
         /\ log' = log
    ELSE /\ pc' = "menu_done"
         /\ log' = Append(log, "report_folder")

\* _poll_job_until_done: fetch, return when terminal
MRFetch ==
    /\ pc = "mr_fetch"
    /\ called' = called \cup {"jobs.retrieve"}
    /\ \/ /\ failed' = failed \cup {"jobs.retrieve"}
          /\ MRRaise("RetrieveError")
          /\ waited' = Fetched("monitor", None)
       \/ /\ remote # NoJob
          /\ pc' = IF Snapshot.status \in monitor_terminal THEN "mr_collect"
                   ELSE "mr_sleep"
          /\ waited' = Fetched("monitor", Snapshot.status)
          /\ UNCHANGED <<failed, log, err>>
    /\ UNCHANGED <<locvars, cancel_requests, idx, ongoing, jobs, ensured, assistants, inspected, mode, ft_request, template, run_request, config, fs, lang_pair, method, version, ds_files,
                   uploaded, nfiles, remote, job, status, raw, df_metrics,
                   written>>

\* time.sleep(poll_secs)
MRSleep ==
    /\ pc = "mr_sleep"
    /\ pc' = "mr_fetch"
    /\ waited' = Slept("monitor")
    /\ UNCHANGED <<locvars, cancel_requests, idx, ongoing, jobs, ensured, assistants, inspected, mode, ft_request, template, run_request, config, fs, lang_pair, method, version, ds_files,
                   uploaded, nfiles, remote, job, status, called, failed, log,
                   raw, df_metrics, written, err>>

CollectVerbs == <<"jobs.retrieve", "jobs.list_events", "jobs.list_checkpoints">>

\* _collect_artifacts: three fetches in a row, none of them guarded
CollectArtifacts ==
    /\ pc = "mr_collect"
    /\ \/ \E k \in 1..Len(CollectVerbs) :
            /\ called' = called \cup {CollectVerbs[j] : j \in 1..k}
            /\ failed' = failed \cup {CollectVerbs[k]}
            /\ MRRaise("FetchError")
            /\ raw' = raw
       \/ \E events \in EventLists : \E nckpt \in 0..1 :
            /\ called' = called \cup {CollectVerbs[j] : j \in 1..Len(CollectVerbs)}
            /\ raw' = [job |-> Snapshot, events |-> events,
                       checkpoints |-> [j \in 1..nckpt |-> "ckpt"]]
            /\ pc' = "mr_frames"
            /\ UNCHANGED <<failed, log, err>>
    /\ UNCHANGED <<locvars, cancel_requests, idx, ongoing, jobs, ensured, assistants, waited, inspected, mode, ft_request, template, run_request, config, fs, lang_pair, method, version, ds_files,
                   uploaded, nfiles, remote, job, status, df_metrics, written>>

\* _events_df, _checkpoints_df, _metrics_df
BuildFrames ==
    /\ pc = "mr_frames"
    /\ LET m == _metrics_df(raw.events) IN
       IF m.ok
       THEN /\ df_metrics' = m.df
            /\ pc' = "mr_write"
            /\ UNCHANGED <<log, err>>
       ELSE /\ MRRaise(m.error)
            /\ df_metrics' = df_metrics
    /\ UNCHANGED <<locvars, cancel_requests, idx, ongoing, jobs, ensured, assistants, waited, inspected, mode, ft_request, template, run_request, config, fs, lang_pair, method, version, ds_files,
                   uploaded, nfiles, remote, job, status, called, failed, raw,
                   written>>

\* _ensure_dir, then the five files in order; a write may fail
WriteReport ==
    /\ pc = "mr_write"
    /\ \E k \in 0..Len(Artifacts) :
         /\ written' = written \cup {Artifacts[j] : j \in 1..k}
         /\ IF k < Len(Artifacts)
            THEN /\ failed' = failed \cup {"write"}
                 /\ MRRaise("OSError")
            ELSE /\ failed' = failed
                 /\ MRReturn
                 /\ err' = err
    /\ UNCHANGED <<locvars, cancel_requests, idx, ongoing, jobs, ensured, assistants, waited, inspected, mode, ft_request, template, run_request, config, fs, lang_pair, method, version, ds_files,
                   uploaded, nfiles, remote, job, status, called, raw,
                   df_metrics>>

\* ------------------------------------------------------------------------
\* run_automatic_pipeline: evaluation phase (lines 169-232)
\* ------------------------------------------------------------------------
\* a logged soft failure: print, then return
SoftStop(line) ==
    /\ log' = Append(log, line)
    /\ pc' = "done"
    /\ err' = err

\* if not ev_cfg.get("enable", False): print; return
EvalDisabled == SoftStop("evaluation_disabled")

EvalCheck ==
    /\ mode = "pipeline" /\ pc = "eval_check"
    /\ IF ~config.enable
       THEN EvalDisabled
       ELSE /\ pc' = "eval_load"
            /\ UNCHANGED <<log, err>>
    /\ UNCHANGED <<locvars, cancel_requests, idx, ongoing, jobs, ensured, assistants, waited, inspected, mode, ft_request, template, run_request, config, fs, lang_pair, method, version, ds_files,
                   uploaded, nfiles, remote, job, status, called, failed,
                   raw, df_metrics, written>>

\* the two documents are opened in this order
EvalDocuments == <<"data_source_config", "testing_criteria">>

\* except FileNotFoundError: print; return
MissingDocument == SoftStop("skipping_evaluation_missing_file")

\* open + json.load of both documents; only a missing file is caught
EvalLoad ==
    /\ mode = "pipeline" /\ pc = "eval_load"
    /\ IF \E k \in 1..Len(EvalDocuments) : EvalDocuments[k] \notin fs
       THEN \* the documents before the first missing one are parsed first
            \/ /\ MissingDocument
               /\ failed' = failed
            \/ /\ EvalDocuments[1] \in fs
               /\ failed' = failed \cup {"json.load"}
               /\ Raise("JSONDecodeError")
               /\ log' = log
       ELSE \/ /\ pc' = "eval_create"
               /\ UNCHANGED <<failed, log, err>>
            \/ /\ failed' = failed \cup {"json.load"}
               /\ Raise("JSONDecodeError")
               /\ log' = log
    /\ UNCHANGED <<locvars, cancel_requests, idx, ongoing, jobs, ensured, assistants, waited, inspected, mode, ft_request, template, run_request, config, fs, lang_pair, method, version, ds_files,
                   uploaded, nfiles, remote, job, status, called, raw,
                   df_metrics, written>>

CreateFailure_continues ==
    /\ log' = Append(log, "error_creating_evaluation")
    /\ pc' = "run_load"
    /\ err' = err

\* except Exception around create_evaluation: print; return
CreateFailure == SoftStop("error_creating_evaluation")

EvalCreate ==
    /\ mode = "pipeline" /\ pc = "eval_create"
    /\ called' = called \cup {"evals.create"}
    /\ \/ /\ failed' = failed \cup {"evals.create"}
          /\ CreateFailure
       \/ /\ log' = Append(log, "evaluation_created")
          /\ pc' = "run_load"
          /\ UNCHANGED <<failed, err>>
    /\ UNCHANGED <<locvars, cancel_requests, idx, ongoing, jobs, ensured, assistants, waited, inspected, mode, ft_request, template, run_request, config, fs, lang_pair, method, version, ds_files,
                   uploaded, nfiles, remote, job, status, raw, df_metrics,
                   written>>

\* a dotted path such as item.ground_truth, by its components
Paths == {<<"item", "ground_truth">>, <<"ground_truth">>}

\* the run templates data_source_run.json may hold
Templates ==
    [model : {"template-model"},
     source : {[type |-> "file_id", id |-> "placeholder"]},
     references : Paths,
     input_messages : [type : {"item_reference"}, item_reference : Paths]]

MissingTemplate_raises ==
    /\ Raise("FileNotFoundError")
    /\ log' = log

\* except FileNotFoundError around the template: print; return
MissingTemplate == SoftStop("skipping_eval_run_config_not_found")

\* the run template is read after the evaluation has been created
RunLoad ==
    /\ mode = "pipeline" /\ pc = "run_load"
    /\ IF "data_source_run" \notin fs
       THEN /\ MissingTemplate
            /\ failed' = failed
            /\ template' = template
       ELSE \/ \E t \in Templates :
                 /\ template' = t
                 /\ pc' = "run_create"
                 /\ UNCHANGED <<failed, log, err>>
            \/ /\ failed' = failed \cup {"json.load"}
               /\ Raise("JSONDecodeError")
               /\ log' = log
               /\ template' = template
    /\ UNCHANGED <<locvars, cancel_requests, idx, ongoing, jobs, ensured, assistants, waited, inspected, mode, ft_request, run_request, config, fs, lang_pair, method,
                   version, ds_files, uploaded, nfiles, remote, job, status,
                   called, raw, df_metrics, written>>

PrepareRun_train_file(run_cfg) ==
    [k \in (DOMAIN run_cfg) \cup {"model", "source"} |->
        IF k = "model" THEN job.model
        ELSE IF k = "source" THEN [type |-> "file_id", id |-> uploaded["train"]]
        ELSE run_cfg[k]]

\* run_cfg["model"] = fine_tuned_model; run_cfg["source"] = {...} (lines 201-212)
PrepareRun(run_cfg) ==
    [k \in (DOMAIN run_cfg) \cup {"model", "source"} |->
        IF k = "model" THEN job.model
        ELSE IF k = "source" THEN [type |-> "file_id", id |-> uploaded["eval"]]
        ELSE run_cfg[k]]

\* run_cfg["model"], run_cfg["source"], then create_evaluation_run
RunCreate ==
    /\ mode = "pipeline" /\ pc = "run_create"
    /\ called' = called \cup {"evals.runs.create"}
    /\ run_request' = PrepareRun(template)
    /\ \/ /\ failed' = failed \cup {"evals.runs.create"}
          /\ SoftStop("error_starting_evaluation_run")
       \/ /\ log' = Append(log, "eval_run_started")
          /\ pc' = "inspect"
          /\ UNCHANGED <<failed, err>>
    /\ UNCHANGED <<locvars, cancel_requests, idx, ongoing, jobs, ensured, assistants, waited, inspected, mode, ft_request, template, config, fs, lang_pair, method,
                   version, ds_files, uploaded, nfiles, remote, job, status,
                   raw, df_metrics, written>>

\* the pages of output items the service may return: item k of a page is
\* told from the others by its number
OutputItems == {[k \in 1..n |-> k] : n \in 0..MaxItems}

\* for item in items[:5]
DetailLimit == 5

Render_every_item(items) ==
    [count |-> Len(items),
     detail |-> items,
     truncated |-> Len(items) > DetailLimit]

\* the count line, json.dumps of items[:5], the notice if len(items) > 5
Render(items) ==
    [count |-> Len(items),
     detail |-> SubSeq(items, 1, IF Len(items) < DetailLimit THEN Len(items)
                                 ELSE DetailLimit),
     truncated |-> Len(items) > DetailLimit]

\* list_output_items inside try/except, then the closing line
Inspect ==
    /\ mode = "pipeline" /\ pc = "inspect"
    /\ called' = called \cup {"output_items.list"}
    /\ \/ /\ failed' = failed \cup {"output_items.list"}
          /\ log' = log \o <<"error_retrieving_output_items", "pipeline_done">>
          /\ inspected' = inspected
       \/ \E items \in OutputItems :
            /\ failed' = failed
            /\ log' = log \o <<"output_items", "pipeline_done">>
            /\ inspected' = <<[items |-> items, printed |-> Render(items)]>>
    /\ pc' = "done"
    /\ UNCHANGED <<locvars, cancel_requests, idx, ongoing, jobs, ensured, assistants, waited, mode, ft_request, template, run_request, config, fs, lang_pair, method, version, ds_files,
                   uploaded, nfiles, remote, job, status, raw, df_metrics,
                   written, err>>

\* ------------------------------------------------------------------------
\* Specification
\* ------------------------------------------------------------------------
Next ==
    \/ Discover
    \/ Upload
    \/ Launch
    \/ RemoteAdvance
    \/ WhileCheck
    \/ Sleep
    \/ Retrieve
    \/ DiagnosePrint
    \/ DiagnoseEvents
    \/ DiagnoseCheckpoints
    \/ MRFetch
    \/ MRSleep
    \/ CollectArtifacts
    \/ BuildFrames
    \/ WriteReport
    \/ EvalCheck
    \/ EvalLoad
    \/ EvalCreate
    \/ RunLoad
    \/ RunCreate
    \/ Inspect

Spec == Init /\ [][Next]_vars

\* the steps of the program itself (everything but the remote service)
Program ==
    \/ Discover \/ Upload \/ Launch \/ WhileCheck \/ Sleep \/ Retrieve
    \/ DiagnosePrint \/ DiagnoseEvents \/ DiagnoseCheckpoints
    \/ MRFetch \/ MRSleep \/ CollectArtifacts \/ BuildFrames \/ WriteReport
    \/ EvalCheck \/ EvalLoad \/ EvalCreate \/ RunLoad \/ RunCreate \/ Inspect

\* the single thread of control always takes its next step, and the remote
\* job keeps advancing until it is terminal
LiveSpec == Spec /\ WF_vars(Program) /\ WF_vars(RemoteAdvance)

\* ------------------------------------------------------------------------
\* The path helpers and ConfigLoader.load on one directory tree
\* ------------------------------------------------------------------------
LocInit ==
    /\ mode \in {"locator", "declarative"}
    /\ pc = "discover"
    /\ config \in [base_dir : BaseDirs, enable : {TRUE},
                    hyperparameters : {DEFAULT_HYPERPARAMS}]
    /\ fs = {}
    /\ remote = NoJob
    /\ lang_pair = None /\ method = None /\ version = None
    /\ ds_files = <<>>
    /\ uploaded = <<>>
    /\ nfiles = 0
    /\ job = NoJob /\ status = None
    /\ called = {} /\ failed = {} /\ log = <<>>
    /\ raw = NoRaw /\ df_metrics = <<>> /\ written = {}
    /\ err = None
    /\ ft_request = <<>> /\ template = <<>> /\ run_request = <<>>
    /\ IF mode = "locator"
       THEN /\ root_dir \in SUBSET MethodDirEntries
            /\ version_dir \in SUBSET DatasetEntries
            /\ document = <<>>
       ELSE /\ root_dir = {} /\ version_dir = {}
            /\ document \in Documents
    /\ located = <<>> /\ loading = <<>> /\ loads = <<>>
    /\ names = <<>> /\ paths = {}
    /\ inspected = <<>>
    /\ waited = <<>>
    /\ assistants = <<>>
    /\ ensured = <<>>
    /\ jobs = <<>>
    /\ ongoing = <<>>
    /\ idx = 0
    /\ cancel_requests = <<>>

\* parse_base_dir, discover_latest_version_dir, collect_dataset_files
Locate ==
    /\ mode = "locator"
    /\ located = <<>>
    /\ located' = <<Locator(config.base_dir, root_dir, version_dir)>>
    /\ UNCHANGED <<runvars, cancel_requests, idx, ongoing, jobs, ensured, assistants, waited, inspected, root_dir, version_dir, loading, loads, document,
                   names, paths>>

\* ConfigLoader.load, zero-config branch, up to the return of _auto_version
LoadVersion ==
    /\ mode = "locator"
    /\ loading = <<>>
    /\ Len(loads) < MaxLoads
    /\ \E listing \in Orders(root_dir) :
         LET v == _auto_version(listing) IN
         IF v.ok
         THEN /\ loading' = v.name
              /\ loads' = loads
         ELSE /\ loads' = Append(loads, [ok |-> FALSE, error |-> v.error,
                                         split |-> None])
              /\ loading' = loading
    /\ UNCHANGED <<runvars, cancel_requests, idx, ongoing, jobs, ensured, assistants, waited, inspected, root_dir, version_dir, located, document,
                   names, paths>>

\* the rest of _build_ft_config, then _package_auto_config
LoadFiles ==
    /\ mode = "locator"
    /\ loading # <<>>
    /\ \E listing \in Orders(version_dir) :
         LET ft == _build_ft_config(config.base_dir, loading, listing) IN
         loads' = Append(loads, IF ft.ok
                                THEN _package_auto_config(config.base_dir, ft)
                                ELSE ft)
    /\ loading' = <<>>
    /\ UNCHANGED <<runvars, cancel_requests, idx, ongoing, jobs, ensured, assistants, waited, inspected, root_dir, version_dir, located, document,
                   names, paths>>

\* ConfigLoader.load on a .yaml file
LoadYaml ==
    /\ mode = "declarative"
    /\ Len(loads) < MaxLoads
    /\ loads' = Append(loads, LoadDeclarative(document))
    /\ UNCHANGED <<runvars, cancel_requests, idx, ongoing, jobs, ensured, assistants, waited, inspected, root_dir, version_dir, located, loading, document,
                   names, paths>>

LocNext == Locate \/ LoadVersion \/ LoadFiles \/ LoadYaml

LocSpec == LocInit /\ [][LocNext]_vars

\* ------------------------------------------------------------------------
\* The report names monitor_and_report derives from a model identifier
\* ------------------------------------------------------------------------
NameInit ==
    /\ mode = "report_name"
    /\ pc = "mr_frames"
    /\ config = [base_dir |-> <<>>, enable |-> FALSE,
                 hyperparameters |-> DEFAULT_HYPERPARAMS]
    /\ fs = {}
    /\ remote = NoJob
    /\ lang_pair = None /\ method = None /\ version = None
    /\ ds_files = <<>>
    /\ uploaded = <<>>
    /\ nfiles = 0
    /\ job = NoJob /\ status = None
    /\ called = {} /\ failed = {} /\ log = <<>>
    /\ raw = NoRaw /\ df_metrics = <<>> /\ written = {}
    /\ err = None
    /\ ft_request = <<>> /\ template = <<>> /\ run_request = <<>>
    /\ root_dir = {} /\ version_dir = {}
    /\ located = <<>> /\ loading = <<>> /\ loads = <<>>
    /\ document = <<>>
    /\ \E model_name \in ModelNames : names = <<model_name>>
    /\ paths = {}
    /\ inspected = <<>>
    /\ waited = <<>>
    /\ assistants = <<>>
    /\ ensured = <<>>
    /\ jobs = <<>>
    /\ ongoing = <<>>
    /\ idx = 0
    /\ cancel_requests = <<>>

\* safe_name = re.sub(...), applied to the latest name; the paths of the
\* report are built from the first result
Sanitize ==
    /\ mode = "report_name"
    /\ Len(names) <= MaxSubs
    /\ names' = Append(names, safe_name(names[Len(names)]))
    /\ paths' = IF Len(names) = 1 THEN ReportPaths(safe_name(names[1])) ELSE paths
    /\ UNCHANGED <<runvars, cancel_requests, idx, ongoing, jobs, ensured, assistants, waited, inspected, root_dir, version_dir, located, loading, loads,
                   document>>

NameNext == Sanitize

NameSpec == NameInit /\ [][NameNext]_vars

\* ------------------------------------------------------------------------
\* ensure_single_assistant against the remote list of assistants
\* ------------------------------------------------------------------------
\* client.beta.assistants.list(limit=100, order="asc").data: one page
PageLimit == 100

\* f"{lang_pair}-translator-{version}-{method}-refiner"
AssistantName(lp, v, m) == <<lp, "translator", v, m, "refiner">>

\* the arguments the calls are made with
RefinerArgs ==
    {[lang_pair |-> "en-fr", version |-> <<"v", "1">>, method |-> "sft"],
     [lang_pair |-> "en-fr", version |-> <<"v", "2">>, method |-> "sft"]}

\* assistants of other names the service holds before the first call
Older(n) == [k \in 1..n |-> [id |-> k, name |-> <<"other">>, updates |-> 0]]

OlderCounts == {0, 1, PageLimit - 1, PageLimit}

\* the first page of the listing, oldest first
FirstPage(listing) ==
    SubSeq(listing, 1, IF Len(listing) < PageLimit THEN Len(listing) ELSE PageLimit)

\* the first assistant of that name on the page, 0 for None
_assistant_exists(listing, name) ==
    LET page == FirstPage(listing)
        hits == {k \in 1..Len(page) : page[k].name = name} IN
    IF hits = {} THEN 0 ELSE CHOOSE k \in hits : \A h \in hits : k <= h
AsstInit ==
    /\ mode = "assistant"
    /\ pc = "mr_frames"
    /\ config = [base_dir |-> <<>>, enable |-> FALSE,
                 hyperparameters |-> DEFAULT_HYPERPARAMS]
    /\ fs = {}
    /\ remote = NoJob
    /\ lang_pair = None /\ method = None /\ version = None
    /\ ds_files = <<>>
    /\ uploaded = <<>>
    /\ nfiles = 0
    /\ job = NoJob /\ status = None
    /\ called = {} /\ failed = {} /\ log = <<>>
    /\ raw = NoRaw /\ df_metrics = <<>> /\ written = {}
    /\ err = None
    /\ ft_request = <<>> /\ template = <<>> /\ run_request = <<>>
    /\ root_dir = {} /\ version_dir = {}
    /\ located = <<>> /\ loading = <<>> /\ loads = <<>>
    /\ document = <<>>
    /\ names = <<>>
    /\ paths = {}
    /\ inspected = <<>>
    /\ waited = <<>>
    /\ \E n \in OlderCounts : assistants = Older(n)
    /\ ensured = <<>>
    /\ jobs = <<>>
    /\ ongoing = <<>>
    /\ idx = 0
    /\ cancel_requests = <<>>

\* ensure_single_assistant: update the assistant found, else create one;
\* an exception of the remote service leaves the function
ensure_single_assistant ==
    /\ mode = "assistant"
    /\ Len(ensured) < MaxEnsures
    /\ \E args \in RefinerArgs :
         LET name == AssistantName(args.lang_pair, args.version, args.method)
             existing == _assistant_exists(assistants, name) IN
         \/ /\ ensured' = Append(ensured, [name |-> name, did |-> "raised", id |-> 0])
            /\ assistants' = assistants
         \/ /\ existing # 0
            /\ assistants' = [assistants EXCEPT ![existing].updates = @ + 1]
            /\ ensured' = Append(ensured, [name |-> name, did |-> "update",
                                           id |-> assistants[existing].id])
         \/ /\ existing = 0
            /\ assistants' = Append(assistants, [id |-> Len(assistants) + 1,
                                                 name |-> name, updates |-> 0])
            /\ ensured' = Append(ensured, [name |-> name, did |-> "create",
                                           id |-> Len(assistants) + 1])
    /\ UNCHANGED <<runvars, locvars, inspected, waited, jobs, ongoing, idx,
                   cancel_requests>>

AsstNext == ensure_single_assistant

AsstSpec == AsstInit /\ [][AsstNext]_vars

\* ------------------------------------------------------------------------
\* FineTuningMenu._cancel_job
\* ------------------------------------------------------------------------
\* the listings the service may return; a job's identifier is its position
JobListings ==
    UNION {[1..n -> Status] : n \in 0..MaxJobs}

Listed(statuses) == [k \in 1..Len(statuses) |-> [id |-> k, status |-> statuses[k]]]

\* what the operator may type at the two prompts, after strip()
Selections == {<<>>, <<"0">>, <<"1">>, <<"2">>, <<"3">>, <<"0", "1">>, <<"x">>,
               <<"-", "1">>}

Confirmations == {"y", "Y", "n", "yes", ""}

\* str.lower() on the answers above
Lower(s) == IF s = "Y" THEN "y" ELSE s

\* j.get("status", "").lower() in ("queued", "in_progress")
IsOngoing(j) == Lower(j.status) \in {"queued", "in_progress"}

\* int(sel) if sel.isdigit() else 0
SelectedIndex(sel) == IF IsDigits(sel) THEN ToInt(sel) ELSE 0

\* the variables the cancel menu leaves alone
cancelrest == <<mode, config, fs, lang_pair, method, version, ds_files,
                uploaded, nfiles, remote, job, status, raw, df_metrics,
                written, err, ft_request, template, run_request, locvars,
                inspected, waited, assistants, ensured>>
CancelInit ==
    /\ mode = "cancel"
    /\ pc = "cancel_list"
    /\ config = [base_dir |-> <<>>, enable |-> FALSE,
                 hyperparameters |-> DEFAULT_HYPERPARAMS]
    /\ fs = {}
    /\ remote = NoJob
    /\ lang_pair = None /\ method = None /\ version = None
    /\ ds_files = <<>>
    /\ uploaded = <<>>
    /\ nfiles = 0
    /\ job = NoJob /\ status = None
    /\ called = {} /\ failed = {} /\ log = <<>>
    /\ raw = NoRaw /\ df_metrics = <<>> /\ written = {}
    /\ err = None
    /\ ft_request = <<>> /\ template = <<>> /\ run_request = <<>>
    /\ root_dir = {} /\ version_dir = {}
    /\ located = <<>> /\ loading = <<>> /\ loads = <<>>
    /\ document = <<>>
    /\ names = <<>>
    /\ paths = {}
    /\ inspected = <<>>
    /\ waited = <<>>
    /\ assistants = <<>>
    /\ ensured = <<>>
    /\ jobs = <<>>
    /\ ongoing = <<>>
    /\ idx = 0
    /\ cancel_requests = <<>>

\* list_fine_tuning_jobs, the filter, the numbered list of ongoing jobs
CancelList ==
    /\ mode = "cancel" /\ pc = "cancel_list"
    /\ called' = called \cup {"jobs.list"}
    /\ \/ /\ failed' = failed \cup {"jobs.list"}
          /\ log' = Append(log, "error_cancelling_job")
          /\ pc' = "menu_done"
          /\ UNCHANGED <<jobs, ongoing>>
       \/ \E statuses \in JobListings :
            /\ jobs' = Listed(statuses)
            /\ ongoing' = SelectSeq(jobs', IsOngoing)
            /\ IF ongoing' = <<>>
               THEN /\ log' = Append(log, "no_ongoing_jobs")
                    /\ pc' = "menu_done"
               ELSE /\ log' = Append(log, "ongoing_jobs")
                    /\ pc' = "cancel_select"
            /\ failed' = failed
    /\ UNCHANGED <<cancelrest, idx, cancel_requests>>

\* the job number prompt
CancelSelect ==
    /\ mode = "cancel" /\ pc = "cancel_select"
    /\ \E sel \in Selections :
         /\ idx' = SelectedIndex(sel)
         /\ IF 1 <= idx' /\ idx' <= Len(ongoing)
            THEN /\ pc' = "cancel_confirm"
                 /\ log' = log
            ELSE /\ pc' = "menu_done"
                 /\ log' = Append(log, "no_job_cancelled")
    /\ UNCHANGED <<cancelrest, jobs, ongoing, cancel_requests, called, failed>>

\* the confirmation prompt, then cancel_fine_tuning_job
CancelConfirm ==
    /\ mode = "cancel" /\ pc = "cancel_confirm"
    /\ \E confirm \in Confirmations :
         IF Lower(confirm) = "y"
         THEN /\ cancel_requests' = Append(cancel_requests, ongoing[idx].id)
              /\ called' = called \cup {"jobs.cancel"}
              /\ \/ /\ failed' = failed \cup {"jobs.cancel"}
                    /\ log' = Append(log, "error_cancelling_job")
                 \/ /\ failed' = failed
                    /\ log' = Append(log, "job_cancelled")
         ELSE /\ log' = Append(log, "cancellation_aborted")
              /\ UNCHANGED <<cancel_requests, called, failed>>
    /\ pc' = "menu_done"
    /\ UNCHANGED <<cancelrest, jobs, ongoing, idx>>

CancelNext == CancelList \/ CancelSelect \/ CancelConfirm

CancelSpec == CancelInit /\ [][CancelNext]_vars

\* ------------------------------------------------------------------------
\* Vocabulary of the properties
\* ------------------------------------------------------------------------
TerminalStatus == {"succeeded", "failed", "cancelled"}

EvalVerbs == {"evals.create", "evals.runs.create", "output_items.list"}

WaitPcs == {"poll", "sleep", "retrieve"}

DiagnosePcs == {"diagnose", "diag_events", "diag_checkpoints"}

ReportPcs == {"mr_fetch", "mr_sleep", "mr_collect", "mr_frames", "mr_write"}

EvalPcs == {"eval_check", "eval_load", "eval_create", "run_load", "run_create", "inspect"}

Ended == {"done", "stopped", "error"}

Printed(line) == \E k \in 1..Len(log) : log[k] = line

\* monitor_and_report has been entered by the pipeline
ReportStarted ==
    \/ pc \in ReportPcs \cup EvalPcs \cup {"done"}
    \/ raw # NoRaw
    \/ written # {}

\* ------------------------------------------------------------------------
\* Properties
\* ------------------------------------------------------------------------
\* C1: in a pipeline run, Fine-Tuning.create has been issued only when all
\* three splits have a file identifier, report generation has started only
\* when the last fetched status is terminal, and Evaluation.create has been
\* issued only when all report artifacts are written.
C1_Ordering ==
    mode = "pipeline" =>
        /\ ("jobs.create" \in called => DOMAIN uploaded = SplitSet)
        /\ (ReportStarted => status \in TerminalStatus)
        /\ ("evals.create" \in called => written = ArtifactSet)

C1_Witness ==
    /\ mode = "pipeline"
    /\ "evals.create" \in called
    /\ "jobs.create" \in called

\* C2: once the upload of a split file has raised, the run has ended with
\* that error and Fine-Tuning.create has not been issued, however many
\* splits were already uploaded.
C2_UploadFailureAborts ==
    (mode = "pipeline" /\ "files.create" \in failed) =>
        /\ pc = "error"
        /\ err = "UploadError"
        /\ "jobs.create" \notin called

C2_Witness ==
    /\ mode = "pipeline"
    /\ "files.create" \in failed
    /\ DOMAIN uploaded = {"train", "valid"}

\* C3: when the fetched terminal status is failed or cancelled, the run is
\* waiting to leave the loop, diagnosing or stopped, and no Evaluation verb
\* has been issued.
C3_NoEvaluationAfterFailedJob ==
    (mode = "pipeline" /\ status \in {"failed", "cancelled"}) =>
        /\ called \cap EvalVerbs = {}
        /\ pc \in {"poll", "stopped"} \cup DiagnosePcs

C3_Witness ==
    /\ mode = "pipeline"
    /\ status = "cancelled"
    /\ pc = "stopped"

\* C4: while the last fetched status is not terminal the wait loop only
\* goes from the test to the sleep, from the sleep to the fetch and from the
\* fetch back to the test (or out with the fetch's exception); it leaves
\* towards diagnosis, report or evaluation only with a terminal status.
C4_PollLeavesOnlyOnTerminal ==
    [][ mode = "pipeline" =>
          /\ (pc = "poll" /\ status \notin TerminalStatus /\ pc' # pc
                => pc' = "sleep")
          /\ (pc = "sleep" /\ pc' # pc => pc' = "retrieve")
          /\ (pc = "retrieve" /\ pc' # pc => pc' \in {"poll", "error"})
          /\ (pc \in WaitPcs /\ pc' \notin WaitPcs \cup {"error"}
                => status \in TerminalStatus) ]_vars

C4_Witness ==
    /\ mode = "pipeline"
    /\ pc = "sleep"
    /\ "jobs.retrieve" \in called
    /\ status = "validating_files"

\* C5: once the job is launched, if nothing the run calls fails, the run
\* eventually ends at done after a succeeded job or at the stop after the
\* diagnosis of a failed or cancelled one.
C5_RunTerminates ==
    (mode = "pipeline" /\ pc = "poll") ~>
        \/ (pc = "done" /\ status = "succeeded")
        \/ (pc = "stopped" /\ status \in {"failed", "cancelled"})
        \/ failed # {}

\* C6: in the diagnosis the job snapshot is the first thing printed, before
\* either fetch; both fetches have been attempted when the run stops; a
\* failed fetch is logged; and the run never ends with an exception.
C6_DiagnosisBestEffort ==
    (mode = "pipeline" /\ status \in {"failed", "cancelled"}) =>
        /\ (called \cap {"jobs.list_events", "jobs.list_checkpoints"} # {}
              => Len(log) >= 1 /\ log[1] = "job_snapshot")
        /\ (pc = "stopped"
              => {"jobs.list_events", "jobs.list_checkpoints"} \subseteq called)
        /\ ("jobs.list_events" \in failed => Printed("error_retrieving_events"))
        /\ ("jobs.list_checkpoints" \in failed
              => Printed("error_retrieving_checkpoints"))
        /\ pc # "error"

C6_Witness ==
    /\ mode = "pipeline"
    /\ pc = "stopped"
    /\ "jobs.list_events" \in failed
    /\ Printed("checkpoints")

\* C7: when the job has succeeded, evaluation is disabled and nothing the
\* run calls has failed, the run ends at done with the whole report written
\* and no Evaluation verb issued.
C7_DisabledEvaluation ==
    (mode = "pipeline" /\ status = "succeeded" /\ ~config.enable
       /\ pc \in Ended /\ failed = {}) =>
        /\ pc = "done"
        /\ written = ArtifactSet
        /\ called \cap EvalVerbs = {}

\* C8: when the job has succeeded, evaluation is enabled, one of the two
\* evaluation documents is missing and nothing the run calls has failed,
\* the run ends at done with the warning printed, the whole report written
\* and no Evaluation.create issued.
C8_MissingDocument ==
    (mode = "pipeline" /\ status = "succeeded" /\ config.enable
       /\ {"data_source_config", "testing_criteria"} \ fs # {}
       /\ pc \in Ended /\ failed = {}) =>
        /\ pc = "done"
        /\ Printed("skipping_evaluation_missing_file")
        /\ written = ArtifactSet
        /\ "evals.create" \notin called

\* C9: once an Evaluation verb has raised, the run has ended at done with
\* the error printed, and no Evaluation verb was issued after a failed
\* create or createRun.
C9_EvaluationErrorsCaught ==
    (mode = "pipeline" /\ failed \cap EvalVerbs # {}) =>
        /\ pc = "done"
        /\ err = None
        /\ ("evals.create" \in failed
              => /\ Printed("error_creating_evaluation")
                 /\ called \cap EvalVerbs = {"evals.create"})
        /\ ("evals.runs.create" \in failed
              => /\ Printed("error_starting_evaluation_run")
                 /\ "output_items.list" \notin called)
        /\ ("output_items.list" \in failed
              => Printed("error_retrieving_output_items"))

C9_Witness ==
    /\ mode = "pipeline"
    /\ "evals.runs.create" \in failed
    /\ pc = "done"

\* C10: once the job has been observed as succeeded, the run never ends
\* with an uncaught exception.
C10_GracefulAfterSuccess ==
    (mode = "pipeline" /\ status = "succeeded") => pc # "error"

\* ------------------------------------------------------------------------
\* Properties of the submitted requests and of the abort paths
\* ------------------------------------------------------------------------
\* EvaluationMenu._create_evaluation_and_run, lines 155-162: drop a leading
\* item. qualifier, keep a bare path
StripItem(path) ==
    IF Len(path) > 1 /\ Head(path) = "item" THEN Tail(path) ELSE path

\* C11: the run configuration handed to Evaluation.createRun carries the
\* references and input_messages.item_reference of the template with a
\* leading item. qualifier removed, bare values unchanged.
C11_QualifierStripped ==
    (mode = "pipeline" /\ "evals.runs.create" \in called) =>
        /\ run_request.references = StripItem(template.references)
        /\ run_request.input_messages.item_reference =
              StripItem(template.input_messages.item_reference)

\* C12: the run configuration handed to Evaluation.createRun has as model
\* the model of the succeeded snapshot the pipeline holds, as source the
\* file identifier of this run's eval upload, and every other field as in
\* the template.
C12_RunInjection ==
    (mode = "pipeline" /\ "evals.runs.create" \in called) =>
        /\ job.status = "succeeded"
        /\ run_request.model = job.model
        /\ run_request.source = [type |-> "file_id", id |-> uploaded["eval"]]
        /\ DOMAIN run_request = (DOMAIN template) \cup {"model", "source"}
        /\ \A k \in (DOMAIN template) \ {"model", "source"} :
              run_request[k] = template[k]

C12_Witness ==
    /\ mode = "pipeline"
    /\ "evals.runs.create" \in called
    /\ run_request.model = "ft:gpt-4o:acme::A1"
    /\ template.references = <<"item", "ground_truth">>

\* C13: the arguments of Fine-Tuning.create name the identifiers of this
\* run's train and valid uploads, and the method argument is
\* {type: m, m: {hyperparameters: H}} with m the last component of the
\* dataset path and H the configuration's hyperparameters.
C13_LaunchArguments ==
    (mode = "pipeline" /\ "jobs.create" \in called) =>
        LET m == config.base_dir[Len(config.base_dir)] IN
        /\ ft_request.training_file = uploaded["train"]
        /\ ft_request.validation_file = uploaded["valid"]
        /\ ft_request.validation_file # uploaded["eval"]
        /\ DOMAIN ft_request.method = {"type", m}
        /\ ft_request.method["type"] = m
        /\ ft_request.method[m] = [hyperparameters |-> config.hyperparameters]

C13_Witness ==
    /\ mode = "pipeline"
    /\ "jobs.create" \in called
    /\ config.hyperparameters = [n_epochs |-> 1]
    /\ ft_request.seed = None
    /\ ft_request.method["type"] = "dpo"
    /\ ft_request.training_file # ft_request.validation_file

\* C14: once Fine-Tuning.create has raised, the run has ended with that
\* error; no retrieve, no list, no evaluation verb has been issued and no
\* report artifact written.
C14_CreateFailureAborts ==
    (mode = "pipeline" /\ "jobs.create" \in failed) =>
        /\ pc = "error"
        /\ err = "CreateError"
        /\ called \subseteq {"files.create", "jobs.create"}
        /\ raw = NoRaw
        /\ written = {}

C14_Witness ==
    /\ mode = "pipeline"
    /\ "jobs.create" \in failed
    /\ pc = "error"

LocatorErrors == {"RuntimeError", "Missing", "Multiple"}

\* C15: when discovery has failed the run has ended with the locator's
\* error and no remote verb has been issued; any later position, and any
\* remote call, presupposes lang_pair, version and all three split files.
C15_DiscoveryFailureAborts ==
    mode = "pipeline" =>
        /\ (err \in LocatorErrors
              => pc = "error" /\ called = {} /\ DOMAIN uploaded = {})
        /\ ((pc \notin {"discover", "error"} \/ called # {})
              => /\ lang_pair # None
                 /\ version # None
                 /\ DOMAIN ds_files = SplitSet)

C15_Witness ==
    /\ mode = "pipeline"
    /\ pc = "error"
    /\ err = "Multiple"
    /\ called = {}

\* ------------------------------------------------------------------------
\* Properties of the path helpers and of zero-config resolution
\* ------------------------------------------------------------------------
\* the sub-directories of the method directory literally named v<integer>
VersionDirs == {d \in root_dir : d.isdir /\ VersionNumber(d.name) > 0}

GreatestVersion ==
    CHOOSE d \in VersionDirs :
        \A e \in VersionDirs : VersionNumber(e.name) <= VersionNumber(d.name)

\* the regular .jsonl files of the version directory that match a split
FileMatches(typ) == {f \in version_dir : ~f.isdir /\ f.jsonl /\ typ \in f.kws}

\* the results of the calls that got as far as the version directory
LocatedInVersionDir ==
    {located[i] : i \in {k \in 1..Len(located) :
        located[k].ok \/ located[k].stage = "collect_dataset_files"}}

LoadedInVersionDir ==
    {loads[i] : i \in {k \in 1..Len(loads) :
        loads[k].ok \/ loads[k].split # None}}

\* C16: both version selectors return the v<integer> sub-directory with the
\* numerically greatest integer, and fail with a not-found error exactly
\* when the method directory has no such sub-directory.
C16_GreatestVersion ==
    mode = "locator" =>
        /\ \A i \in 1..Len(located) :
              /\ located[i].ok => located[i].version = GreatestVersion.name
              /\ (~located[i].ok /\ located[i].stage = "discover_latest_version_dir")
                    <=> (VersionDirs = {} /\ parse_base_dir(config.base_dir).ok)
        /\ loading # <<>> => VersionDirs # {} /\ loading = GreatestVersion.name
        /\ \A i \in 1..Len(loads) :
              /\ loads[i].ok => loads[i].autobuild.version = GreatestVersion.name
              /\ VersionDirs = {} =>
                    ~loads[i].ok /\ loads[i].error = "FileNotFoundError"
                                 /\ loads[i].split = None

\* C17: when no regular file of the version directory matches a split (and
\* each other split has exactly one), discovery fails naming that split, and
\* a mapping it returns has all three splits.
C17_MissingSplitNamed ==
    mode = "locator" =>
        /\ \A typ \in SplitSet :
              (/\ FileMatches(typ) = {}
               /\ \A u \in SplitSet \ {typ} : Cardinality(FileMatches(u)) = 1)
              => /\ \A r \in LocatedInVersionDir :
                       ~r.ok /\ r.error = "Missing" /\ r.split = typ
                 /\ \A r \in LoadedInVersionDir : ~r.ok /\ r.split = typ
        /\ \A r \in LocatedInVersionDir : r.ok => DOMAIN r.files = SplitSet
        /\ \A r \in LoadedInVersionDir :
              r.ok => DOMAIN r.autobuild.data = SplitSet

\* C18: when two or more regular files of the version directory match the
\* same split, discovery fails with the error that lists them; no result is
\* returned.
C18_DuplicateSplitRejected ==
    mode = "locator" =>
        \A typ \in SplitSet :
            (/\ Cardinality(FileMatches(typ)) >= 2
             /\ \A u \in SplitSet \ {typ} : Cardinality(FileMatches(u)) = 1)
            => /\ \A r \in LocatedInVersionDir :
                     ~r.ok /\ r.error = "Multiple" /\ r.split = typ
               /\ \A r \in LoadedInVersionDir : ~r.ok

\* C19: for a root path .../<langPair>/<stage>/<method> every returned
\* result has langPair the component two levels above the method directory
\* and method the last component.
C19_LangPairAndMethod ==
    (mode = "locator" /\ Len(config.base_dir) >= 3) =>
        LET path == config.base_dir IN
        /\ \A i \in 1..Len(located) :
              located[i].ok => /\ located[i].lang_pair = path[Len(path) - 2]
                               /\ located[i].method = path[Len(path)]
        /\ \A i \in 1..Len(loads) :
              loads[i].ok => /\ loads[i].autobuild.lang_pair = path[Len(path) - 2]
                             /\ loads[i].fine_tuning.method = path[Len(path)]

\* C20: two zero-config derivations on the same directory tree give the same
\* outcome: the same suffix, version and three file paths, whatever the
\* order of the directory listings.
C20_LoadIdempotent ==
    mode = "locator" =>
        \A i, j \in 1..Len(loads) :
            /\ loads[i].ok = loads[j].ok
            /\ loads[i].ok =>
                  /\ loads[i].autobuild.suffix = loads[j].autobuild.suffix
                  /\ loads[i].autobuild.version = loads[j].autobuild.version
                  /\ loads[i].autobuild.data = loads[j].autobuild.data

\* ------------------------------------------------------------------------
\* Properties of the launch suffix, the loader and the report
\* ------------------------------------------------------------------------
\* the configuration ConfigLoader.load returns in zero-config mode
ZeroConfig == config.enable /\ config.hyperparameters = DEFAULT_HYPERPARAMS

\* C21: in zero-config mode the suffix submitted to Fine-Tuning.create is
\* the template filled with langPair, the version without its leading v and
\* the method.
C21_LaunchSuffix ==
    (mode = "pipeline" /\ "jobs.create" \in called /\ ZeroConfig) =>
        /\ Head(version) = "v"
        /\ ft_request.suffix = FormatSuffix(lang_pair, Tail(version), method)

\* a parsed document that has every required key and an existing base_dir
Complete(doc) ==
    /\ doc # MalformedYaml
    /\ TopLevelKeys \subseteq DOMAIN doc
    /\ "base_dir" \in DOMAIN doc["dataset"]
    /\ doc["dataset"]["base_dir"] \in BaseDirs
    /\ {FineTuningKeys[i] : i \in 1..Len(FineTuningKeys)} \subseteq DOMAIN doc["fine_tuning"]
    /\ {EvaluationKeys[i] : i \in 1..Len(EvaluationKeys)} \subseteq DOMAIN doc["evaluation"]

StatesRatios(doc) ==
    /\ doc # MalformedYaml
    /\ "dataset" \in DOMAIN doc
    /\ "ratios" \in DOMAIN doc["dataset"]

\* C22: a declarative document whose three split ratios sum to more than
\* 1.0 is rejected, and an otherwise complete one whose ratios sum to 1.0 or
\* less is accepted.
C22_RatioSum ==
    (mode = "declarative" /\ StatesRatios(document)) =>
        LET r == document["dataset"]["ratios"]
            total == r[1] + r[2] + r[3] IN
        \A i \in 1..Len(loads) :
            /\ total > 100 => ~loads[i].ok
            /\ (total <= 100 /\ Complete(document)) => loads[i].ok

\* the required keys, in the order validation asks for them
RequiredKeys ==
    << <<"dataset">>, <<"fine_tuning">>, <<"evaluation">>,
       <<"dataset", "base_dir">>,
       <<"fine_tuning", "enable">>, <<"fine_tuning", "base_model">>,
       <<"fine_tuning", "suffix_template">>, <<"fine_tuning", "hyperparameters">>,
       <<"evaluation", "enable">>, <<"evaluation", "data_source_config_path">>,
       <<"evaluation", "testing_criteria_path">>,
       <<"evaluation", "data_source_run_path">> >>

HasKey(doc, path) ==
    /\ path[1] \in DOMAIN doc
    /\ Len(path) = 2 => path[2] \in DOMAIN doc[path[1]]

Lacking(doc) == {k \in 1..Len(RequiredKeys) : ~HasKey(doc, RequiredKeys[k])}

FirstLacking(doc) ==
    RequiredKeys[CHOOSE k \in Lacking(doc) : \A j \in Lacking(doc) : k <= j]

InvalidBaseDir(doc) ==
    /\ TopLevelKeys \subseteq DOMAIN doc
    /\ "base_dir" \in DOMAIN doc["dataset"]
    /\ doc["dataset"]["base_dir"] \notin BaseDirs

OrchestratorReads(cfg) ==
    /\ "base_dir" \in DOMAIN cfg.dataset
    /\ "hyperparameters" \in DOMAIN cfg.fine_tuning
    /\ {"enable", "data_source_config_path", "testing_criteria_path",
        "data_source_run_path"} \subseteq DOMAIN cfg.evaluation

C25_EmptyMetricsReport ==
    (/\ raw # NoRaw
     /\ MetricRecords(raw.events) = <<>>
     /\ pc \notin ReportPcs
     /\ "write" \notin failed)
    => /\ written = ArtifactSet
       /\ df_metrics = <<>>

\* the events that are metric records with a step
MetricEvents(events) ==
    {j \in 1..Len(events) : events[j].type = "metrics" /\ events[j].step # NoStep}

\* C26: the metrics table has one row for each metrics event that has a
\* step and no other row, and its rows are in ascending order of step.
C26_MetricsTable ==
    (pc = "mr_write" \/ df_metrics # <<>>) =>
        /\ Len(df_metrics) = Cardinality(MetricEvents(raw.events))
        /\ \A s \in 1..MaxEvents :
              Cardinality({i \in 1..Len(df_metrics) : df_metrics[i].step = s})
                = Cardinality({j \in MetricEvents(raw.events) : raw.events[j].step = s})
        /\ \A i, j \in 1..Len(df_metrics) :
              i < j => df_metrics[i].step <= df_metrics[j].step

C26_Witness ==
    /\ pc = "mr_write"
    /\ Len(raw.events) = 2
    /\ raw.events[1] = [type |-> "metrics", step |-> 2]
    /\ raw.events[2] = [type |-> "metrics", step |-> 1]
    /\ df_metrics = <<[step |-> 1], [step |-> 2]>>

\* C27: the sanitized name has the length of the identifier, keeps every
\* character of [A-Za-z0-9_-] in place and puts _ for every other one, so it
\* holds allowed characters only; sanitizing it again changes nothing, and
\* the directory and the five file names carry exactly that name.
C27_SanitizedName ==
    (mode = "report_name" /\ Len(names) >= 2) =>
        LET id == names[1]
            safe == names[2] IN
        /\ Len(safe) = Len(id)
        /\ \A k \in 1..Len(id) :
              safe[k] = IF id[k] \in SafeChars THEN id[k] ELSE "_"
        /\ \A k \in 1..Len(safe) : safe[k] \in SafeChars
        /\ \A i \in 3..Len(names) : names[i] = safe
        /\ Cardinality(paths) = Len(Artifacts)
        /\ \A p \in paths : p[1] = safe /\ p[2][2] = safe

C27_Witness ==
    /\ mode = "report_name"
    /\ Len(names) = 3
    /\ names[1] = <<"f", ":", "4">>
    /\ names[2] = <<"f", "_", "4">>
    /\ names[3] = names[2]

\* C28: a report file exists only for a job that ended succeeded, in the
\* automatic pipeline and under monitor_and_report called on its own.
C28_ReportOnlyForSucceeded ==
    written # {} => raw.job.status = "succeeded"

\* C28 as amended: the automatic pipeline writes report files only for a
\* job that ended succeeded; monitor_and_report called on its own writes
\* them for a job in any terminal status, and for no other job.
C28_ReportOnlyForTerminal ==
    written # {} =>
        /\ raw.job.status \in TerminalStatus
        /\ mode = "pipeline" => raw.job.status = "succeeded" /\ status = "succeeded"

C28_Witness ==
    /\ mode = "pipeline"
    /\ written = ArtifactSet
    /\ raw.job.status = "succeeded"

\* C29: in a pipeline run no step issues Fine-Tuning.cancel, no step issues
\* Fine-Tuning.create once it has been issued, and the remote job changes
\* only by its creation or by the service itself.
C29_SingleCreateNoCancel ==
    [][mode = "pipeline" =>
          /\ "jobs.cancel" \notin called'
          /\ "jobs.create" \in called => ~Launch
          /\ remote' # remote => Launch \/ RemoteAdvance]_vars

C29_Witness ==
    /\ mode = "pipeline"
    /\ pc = "stopped"
    /\ {"jobs.create", "jobs.retrieve", "jobs.list_events"} \subseteq called

\* C30: a step of a pipeline run only adds to the uploaded mapping: its keys
\* stay within train, valid, eval, no entry is removed or changed, a new
\* entry holds an identifier the service issued in that very step, and the
\* step that invokes Fine-Tuning.create finds all three keys.
C30_UploadedMonotone ==
    [][mode = "pipeline" =>
          /\ DOMAIN uploaded' \subseteq SplitSet
          /\ DOMAIN uploaded \subseteq DOMAIN uploaded'
          /\ \A t \in DOMAIN uploaded : uploaded'[t] = uploaded[t]
          /\ \A t \in (DOMAIN uploaded') \ (DOMAIN uploaded) :
                /\ uploaded'[t] \in (nfiles + 1)..nfiles'
                /\ "files.create" \in called'
          /\ ("jobs.create" \in called' /\ "jobs.create" \notin called)
                => DOMAIN uploaded = SplitSet]_vars

C30_Witness ==
    /\ mode = "pipeline"
    /\ "jobs.create" \in called
    /\ DOMAIN uploaded = SplitSet
    /\ uploaded["eval"] = 3
    /\ nfiles = 3

\* ------------------------------------------------------------------------
\* Properties of the inspection, the wait loops and the menus
\* ------------------------------------------------------------------------
Min(a, b) == IF a < b THEN a ELSE b

\* C31: of the n fetched output items the pipeline renders the first
\* min(n, 5), in the fetched order, and prints the truncation notice exactly
\* when n > 5.
C31_InspectRendersFirstFive ==
    inspected # <<>> =>
        LET items == inspected[1].items
            printed == inspected[1].printed IN
        /\ Len(printed.detail) = Min(Len(items), 5)
        /\ \A k \in 1..Len(printed.detail) : printed.detail[k] = items[k]
        /\ printed.truncated <=> Len(items) > 5

C31_Witness ==
    /\ pc = "done"
    /\ inspected # <<>>
    /\ Len(inspected[1].items) = 6
    /\ inspected[1].items[6] = 6
    /\ inspected[1].printed.detail[5] = 5
    /\ Len(inspected[1].printed.detail) = 5
    /\ inspected[1].printed.truncated

\* the latest event of the wait loop named loop, if the loop has begun
Latest(loop) == IF waited # <<>> /\ waited[1].loop = loop THEN waited ELSE <<>>

\* a sleep of the loop comes after no other sleep and after no fetch that
\* saw a terminal status; a fetch comes after no other fetch
SleepInOrder(loop) ==
    /\ waited' = <<[loop |-> loop, event |-> "sleep", status |-> None,
                    secs |-> IF loop = "pipeline" THEN 120 ELSE 60]>>
    /\ Latest(loop) # <<>> =>
          /\ Latest(loop)[1].event = "fetch"
          /\ Latest(loop)[1].status \notin TerminalStatus

FetchInOrder(loop) ==
    /\ waited' # <<>> /\ waited'[1].loop = loop /\ waited'[1].event = "fetch"
    /\ Latest(loop) # <<>> => Latest(loop)[1].event = "sleep"

\* C32: in the wait loop of the pipeline and in that of monitor_and_report,
\* two consecutive status fetches have exactly one sleep of the poll
\* interval between them, and no sleep follows the fetch that saw a
\* terminal status.
C32_OneSleepBetweenFetches ==
    [][/\ Sleep => SleepInOrder("pipeline")
       /\ MRSleep => SleepInOrder("monitor")
       /\ Retrieve => FetchInOrder("pipeline")
       /\ MRFetch => FetchInOrder("monitor")]_vars

C32_Witness ==
    /\ mode = "pipeline"
    /\ pc = "poll"
    /\ waited = <<[loop |-> "pipeline", event |-> "fetch", status |-> "cancelled",
                   secs |-> 0]>>

\* the assistants of that name the service holds
Named(name) == {k \in 1..Len(assistants) : assistants[k].name = name}

\* C33: whatever calls of ensure_single_assistant were made, the service
\* holds at most one assistant of each derived name, and a call made while
\* an assistant of its name exists updates it and creates nothing.
C33_SingleAssistant ==
    /\ \A args \in RefinerArgs :
         Cardinality(Named(AssistantName(args.lang_pair, args.version,
                                         args.method))) <= 1
    /\ \A k \in 1..Len(ensured) :
         ensured[k].did = "create" =>
            \A j \in 1..(k - 1) :
               ensured[j].name = ensured[k].name => ensured[j].did = "raised"

\* a job the service still works on
StillOngoing(j) == j.status \in {"queued", "running"}

\* C34: the cancel menu offers exactly the listed jobs whose status is queued
\* or running, and Fine-Tuning.cancel is issued at most once, for the offered
\* job whose number the operator typed, after the confirmation.
C34_CancelOffersOngoing ==
    /\ (mode = "cancel" /\ "jobs.list" \in called /\ "jobs.list" \notin failed)
          => ongoing = SelectSeq(jobs, StillOngoing)
    /\ Len(cancel_requests) <= 1
    /\ \A k \in 1..Len(cancel_requests) :
          /\ idx \in 1..Len(ongoing)
          /\ cancel_requests[k] = ongoing[idx].id
          /\ pc = "menu_done"
    /\ (mode = "cancel" /\ cancel_requests = <<>>) => "jobs.cancel" \notin called

\* C35: on a directory tree where the zero-config derivation and the
\* pipeline's path helpers both succeed, the lang_pair and the version the
\* derivation records equal those the pipeline derives from the same
\* dataset.base_dir.
C35_ResolverAgreesWithPipeline ==
    mode = "locator" =>
        \A i \in 1..Len(located) : \A j \in 1..Len(loads) :
            (located[i].ok /\ loads[j].ok) =>
                /\ loads[j].dataset.base_dir = config.base_dir
                /\ loads[j].autobuild.lang_pair = located[i].lang_pair
                /\ loads[j].autobuild.version = located[i].version

\* C36: the remote job's terminal statuses being absorbing, monitor_and_report
\* called by the pipeline after it saw succeeded fetches the status once and
\* never sleeps before it collects the artifacts, and the job it collects has
\* the status the pipeline saw.
C36_ReportAfterSuccessFetchesOnce ==
    /\ [](mode = "pipeline" =>
            /\ pc # "mr_sleep"
            /\ pc \in ReportPcs => status = "succeeded" /\ remote.status = status
            /\ raw # NoRaw => raw.job.status = status)
    /\ [][mode = "pipeline" =>
            /\ MRFetch => Latest("monitor") = <<>>
            /\ (pc' = "mr_collect" /\ pc # "mr_collect") =>
                  waited' = <<[loop |-> "monitor", event |-> "fetch",
                               status |-> status, secs |-> 0]>>
            /\ (RemoteAdvance /\ remote.status \in TerminalStatus) => FALSE]_vars

C36_Witness ==
    /\ mode = "pipeline"
    /\ pc = "mr_write"
    /\ status = "succeeded"
    /\ raw.job.status = "succeeded"
    /\ waited = <<[loop |-> "monitor", event |-> "fetch", status |-> "succeeded",
                   secs |-> 0]>>

\* the two evaluation documents were read: the pipeline is at or past the
\* creation of the evaluation
DocumentsLoaded == pc = "eval_create" \/ "evals.create" \in called

\* C37: when both evaluation documents load and the run template is not on
\* disk, Evaluation.create is called once, before the template is looked
\* for; no run is created and no output item is listed; the step that
\* misses the template ends the run without an exception.
C37_MissingTemplateStopsAfterCreate ==
    /\ []((mode = "pipeline" /\ DocumentsLoaded /\ "data_source_run" \notin fs) =>
            /\ "evals.runs.create" \notin called
            /\ "output_items.list" \notin called
            /\ template = <<>> /\ run_request = <<>>
            /\ pc \in {"eval_create", "run_load", "done"}
            /\ pc = "run_load" => "evals.create" \in called
            /\ pc = "done" => err = None /\ "evals.create" \in called)
    /\ [][(mode = "pipeline" /\ "data_source_run" \notin fs) =>
            /\ EvalCreate => "evals.create" \notin called
            /\ RunLoad => /\ pc' = "done" /\ err' = None
                          /\ called' = called
                          /\ log' = Append(log, "skipping_eval_run_config_not_found")]_vars

C37_Witness ==
    /\ mode = "pipeline"
    /\ pc = "done"
    /\ fs = {"data_source_config", "testing_criteria"}
    /\ "evals.create" \in called /\ "evals.create" \notin failed
    /\ "evals.runs.create" \notin called
    /\ Printed("skipping_eval_run_config_not_found")
    /\ err = None

====
